---- MODULE Spec2Model ----
(***************************************************************************)
(* The protected-route gate of the portfolio: the edge interceptor         *)
(* proxy() of src/proxy.ts and the unlock endpoint POST of                 *)
(* src/app/work/unlock/action/route.ts.                                    *)
(*                                                                         *)
(* Strings the code inspects character by character (pathnames, query      *)
(* strings) are sequences of one-character strings, so that startsWith and *)
(* the form-urlencoding of URLSearchParams are computed, not assumed.      *)
(* Strings the code only compares for equality (cookie values, passwords)  *)
(* are TLA+ strings.                                                       *)
(***************************************************************************)
EXTENDS Integers, Sequences, FiniteSets, TLC

VARIABLES
    CASE_PASS,  \* process.env.CASE_PASS: JsUndefined or a JS string
    NODE_ENV,   \* process.env.NODE_ENV
    req,        \* the request the runtime handed to a handler last
    res         \* the response that handler returned

\* One browser session on the site.
VARIABLES
    jar,        \* the cookies the browser holds: records [name, value]
    loc,        \* the URL of the document the browser shows
    nav,        \* the URL the browser is about to request, or NoUrl
    ui,         \* UnlockClient: its prop next and its state loading, error
    inflight,   \* the body of the fetch("/work/unlock/action") under way, or NoBody
    wanted,     \* history: the URL the user asked for last
    granted,    \* history: some submission carried the non-empty CASE_PASS
    issued      \* history: the cookies the unlock endpoint has set so far

\* The contact handlers: src/app/api/contact/route.ts and public/send.php.
VARIABLES
    RESEND_API_KEY, \* process.env.RESEND_API_KEY is set
    creq,           \* the contact submission handled last
    cres,           \* the response to it
    sent,           \* the outbound messages that submission caused
    now,            \* time(), in seconds
    rateFile,       \* the timestamps in the rate-limit file of the client's fingerprint
    mails,          \* the times at which send.php called mail(), oldest first
    procs           \* the runs of send.php that are under way: what each has read

\* The client components of the case-study pages and of the home page.
VARIABLES
    shell,      \* CaseStudyShell: its state, localStorage and the system colour scheme
    header      \* Header: activeSection, the click lock and the pending timers

gateVars    == <<CASE_PASS, NODE_ENV, req, res>>
browserVars == <<jar, loc, nav, ui, inflight, wanted, granted, issued>>
contactVars == <<RESEND_API_KEY, creq, cres, sent, now, rateFile, mails, procs>>
pageVars    == <<shell, header>>

vars == <<CASE_PASS, NODE_ENV, req, res, jar, loc, nav, ui, inflight, wanted, granted, issued,
          RESEND_API_KEY, creq, cres, sent, now, rateFile, mails, procs, shell, header>>

(***************************************************************************)
(* String literals of src/proxy.ts                                         *)
(***************************************************************************)
S_work ==
    <<"/", "w", "o", "r", "k">>

S_work_unlock ==
    <<"/", "w", "o", "r", "k", "/", "u", "n", "l", "o", "c", "k">>

S_api ==
    <<"/", "a", "p", "i">>

S_next ==
    <<"n", "e", "x", "t">>

(***************************************************************************)
(* Request pathnames and raw query strings (req.nextUrl.pathname,          *)
(* req.nextUrl.search) the handlers are exercised with                     *)
(***************************************************************************)
\* The pathnames of the requests.
P ==
    [root |-> <<"/">>,
     imprint |-> <<"/", "f", "o", "o", "t", "e", "r", "/", "i", "m", "p", "r", "i", "n", "t">>,
     api_contact |-> <<"/", "a", "p", "i", "/", "c", "o", "n", "t", "a", "c", "t">>,
     workshop |-> <<"/", "w", "o", "r", "k", "s", "h", "o", "p">>,
     work |-> <<"/", "w", "o", "r", "k">>,
     calibration |-> <<"/", "w", "o", "r", "k", "/", "c", "a", "l", "i", "b", "r", "a", "t", "i", "o", "n", "-", "s", "o", "f", "t", "w", "a", "r", "e">>,
     dex |-> <<"/", "w", "o", "r", "k", "/", "d", "e", "c", "e", "n", "t", "r", "a", "l", "i", "z", "e", "d", "-", "e", "x", "c", "h", "a", "n", "g", "e">>,
     work_api |-> <<"/", "w", "o", "r", "k", "/", "a", "p", "i", "/", "d", "a", "t", "a">>,
     unlock |-> <<"/", "w", "o", "r", "k", "/", "u", "n", "l", "o", "c", "k">>,
     unlock_action |-> <<"/", "w", "o", "r", "k", "/", "u", "n", "l", "o", "c", "k", "/", "a", "c", "t", "i", "o", "n">>,
     unlock_notes |-> <<"/", "w", "o", "r", "k", "/", "u", "n", "l", "o", "c", "k", "-", "n", "o", "t", "e", "s">>,
     unlocked_secret |-> <<"/", "w", "o", "r", "k", "/", "u", "n", "l", "o", "c", "k", "e", "d", "/", "s", "e", "c", "r", "e", "t">>]

Pathnames ==
    { P.root, P.imprint, P.api_contact, P.workshop, P.work, P.calibration, P.dex,
      P.work_api, P.unlock, P.unlock_action, P.unlock_notes, P.unlocked_secret }

\* The query strings of the requests.
Q ==
    [none |-> <<>>,
     ref |-> <<"?", "r", "e", "f", "=", "l", "i">>,
     next |-> <<"?", "n", "e", "x", "t", "=", "%", "2", "F", "e", "v", "i", "l", "&", "a", "=", "1">>,
     next_twice |-> <<"?", "n", "e", "x", "t", "=", "a", "&", "n", "e", "x", "t", "=", "b">>,
     plus |-> <<"?", "q", "=", "a", "+", "b", "%", "2", "6", "c">>]

Searches ==
    { Q.none, Q.ref, Q.next, Q.next_twice, Q.plus }

(***************************************************************************)
(* String.prototype.startsWith                                             *)
(***************************************************************************)
startsWith(s, prefix) ==
    /\ Len(s) >= Len(prefix)
    /\ SubSeq(s, 1, Len(prefix)) = prefix

(***************************************************************************)
(* URLSearchParams (application/x-www-form-urlencoded), as used by         *)
(* url.searchParams.set in proxy().  A parameter list is a sequence of     *)
(* records [name, value] of decoded strings.                               *)
(***************************************************************************)

\* The bytes the serializer percent-encodes, among the characters used here.
PercentCode ==
    [ c \in {"/", "?", "=", "&", "%", "+", ":"} |->
        CASE c = "/" -> <<"2", "F">>
          [] c = "?" -> <<"3", "F">>
          [] c = "=" -> <<"3", "D">>
          [] c = "&" -> <<"2", "6">>
          [] c = "%" -> <<"2", "5">>
          [] c = "+" -> <<"2", "B">>
          [] c = ":" -> <<"3", "A">> ]

\* The serializer: a space becomes "+", a reserved byte becomes %XX, letters,
\* digits and "*-._" stay.
RECURSIVE formEncode(_)
formEncode(s) ==
    IF s = <<>> THEN <<>>
    ELSE LET c == Head(s)
             e == IF c = " " THEN <<"+">>
                  ELSE IF c \in DOMAIN PercentCode THEN <<"%">> \o PercentCode[c]
                  ELSE <<c>>
         IN  e \o formEncode(Tail(s))

\* The parser's decoding: "+" becomes a space, %XX becomes its byte, a "%" that
\* starts no known escape stays.
RECURSIVE formDecode(_)
formDecode(s) ==
    IF s = <<>> THEN <<>>
    ELSE IF Head(s) = "+" THEN <<" ">> \o formDecode(Tail(s))
    ELSE IF /\ Head(s) = "%"
            /\ Len(s) >= 3
            /\ \E c \in DOMAIN PercentCode : PercentCode[c] = SubSeq(s, 2, 3)
         THEN LET c == CHOOSE c \in DOMAIN PercentCode : PercentCode[c] = SubSeq(s, 2, 3)
              IN  <<c>> \o formDecode(SubSeq(s, 4, Len(s)))
    ELSE <<Head(s)>> \o formDecode(Tail(s))

\* The index of the first sep in s, or 0.
RECURSIVE indexOf(_, _, _)
indexOf(s, sep, i) ==
    IF i > Len(s) THEN 0
    ELSE IF s[i] = sep THEN i
    ELSE indexOf(s, sep, i + 1)

RECURSIVE split(_, _)
split(s, sep) ==
    LET i == indexOf(s, sep, 1)
    IN  IF i = 0 THEN <<s>>
        ELSE <<SubSeq(s, 1, i - 1)>> \o split(SubSeq(s, i + 1, Len(s)), sep)

\* One name=value piece of a query string.
parsePair(piece) ==
    LET i == indexOf(piece, "=", 1)
    IN  IF i = 0
        THEN [name |-> formDecode(piece), value |-> <<>>]
        ELSE [name  |-> formDecode(SubSeq(piece, 1, i - 1)),
              value |-> formDecode(SubSeq(piece, i + 1, Len(piece)))]

RECURSIVE parsePieces(_)
parsePieces(pieces) ==
    IF pieces = <<>> THEN <<>>
    ELSE IF Head(pieces) = <<>> THEN parsePieces(Tail(pieces))
    ELSE <<parsePair(Head(pieces))>> \o parsePieces(Tail(pieces))

\* new URLSearchParams(search): a leading "?" is dropped.
parseSearch(search) ==
    LET q == IF search # <<>> /\ Head(search) = "?" THEN Tail(search) ELSE search
    IN  parsePieces(split(q, "&"))

RECURSIVE serializeParams(_)
serializeParams(list) ==
    IF list = <<>> THEN <<>>
    ELSE LET p == Head(list)
             one == formEncode(p.name) \o <<"=">> \o formEncode(p.value)
         IN  IF Tail(list) = <<>> THEN one
             ELSE one \o <<"&">> \o serializeParams(Tail(list))

\* URL.search after its parameter list changed.
searchOf(list) ==
    IF list = <<>> THEN <<>> ELSE <<"?">> \o serializeParams(list)

RECURSIVE withoutName(_, _)
withoutName(list, name) ==
    IF list = <<>> THEN <<>>
    ELSE IF Head(list).name = name THEN withoutName(Tail(list), name)
    ELSE <<Head(list)>> \o withoutName(Tail(list), name)

\* URLSearchParams.set: the first parameter of that name gets the value and
\* the others of that name are removed; without one, the pair is appended.
RECURSIVE searchParamsSet(_, _, _)
searchParamsSet(list, name, value) ==
    IF list = <<>> THEN <<[name |-> name, value |-> value]>>
    ELSE IF Head(list).name = name
         THEN <<[name |-> name, value |-> value]>> \o withoutName(Tail(list), name)
    ELSE <<Head(list)>> \o searchParamsSet(Tail(list), name, value)

\* URLSearchParams.get: the first value of that name; Null without one.
Null == <<"\\null">>

RECURSIVE searchParamsGet(_, _)
searchParamsGet(list, name) ==
    IF list = <<>> THEN Null
    ELSE IF Head(list).name = name THEN Head(list).value
    ELSE searchParamsGet(Tail(list), name)

(***************************************************************************)
(* Cookies of a request: a set of records [name, value], one per name.     *)
(***************************************************************************)
Cookie(n, v) == [name |-> n, value |-> v]

CookieJars ==
    { {},
      {Cookie("case_access", "")},
      {Cookie("case_access", "0")},
      {Cookie("case_access", "1")},
      {Cookie("case_access", "true")},
      {Cookie("kpk_theme", "1")} }

(***************************************************************************)
(* Responses.  Every response has the same fields: kind "next"             *)
(* (NextResponse.next()), "redirect", "json", or "error" (the handler      *)
(* threw and the runtime answered).                                        *)
(***************************************************************************)
NoLocation == [pathname |-> <<>>, search |-> <<>>]

NextResponse_next ==
    [kind |-> "next", status |-> 200, location |-> NoLocation, body |-> "none", cookies |-> {}]

\* A redirect that also resets the access cookie.
NextResponse_redirect_resetsCookie(url) ==
    [kind |-> "redirect", status |-> 307, location |-> url, body |-> "none",
     cookies |-> {[name |-> "case_access", value |-> "0", path |-> <<"/">>, httpOnly |-> TRUE,
                   sameSite |-> "lax", secure |-> FALSE, maxAge |-> "unset",
                   expires |-> "unset"]}]

NextResponse_redirect(url) ==
    [kind |-> "redirect", status |-> 307, location |-> url, body |-> "none", cookies |-> {}]

NextResponse_json(body, status) ==
    [kind |-> "json", status |-> status, location |-> NoLocation, body |-> body, cookies |-> {}]

\* What the runtime answers when a route handler throws.
UnhandledError ==
    [kind |-> "error", status |-> 500, location |-> NoLocation, body |-> "none", cookies |-> {}]

(***************************************************************************)
(* src/proxy.ts                                                            *)
(***************************************************************************)
\* The route test without the exemption of the unlock page.
isProtectedWorkRoute_noUnlockExemption(pathname) ==
    /\ startsWith(pathname, S_work)
    /\ ~startsWith(pathname, S_api)

isProtectedWorkRoute(pathname) ==
    /\ startsWith(pathname, S_work)
    /\ ~startsWith(pathname, S_work_unlock)
    /\ ~startsWith(pathname, S_api)

hasAccess(cookies) ==
    \E c \in cookies : c.name = "case_access" /\ c.value = "1"

\* The redirect with the query string left out of the return target.
redirectUrl_pathnameOnly(pathname, search) ==
    [pathname |-> S_work_unlock,
     search   |-> searchOf(searchParamsSet(parseSearch(search), S_next, pathname))]

\* req.nextUrl.clone() with pathname and the next parameter replaced.
redirectUrl(pathname, search) ==
    [pathname |-> S_work_unlock,
     search   |-> searchOf(searchParamsSet(parseSearch(search), S_next, pathname \o search))]

proxy(r) ==
    IF ~isProtectedWorkRoute(r.pathname) THEN NextResponse_next
    ELSE IF hasAccess(r.cookies) THEN NextResponse_next
    ELSE NextResponse_redirect(redirectUrl(r.pathname, r.search))

(***************************************************************************)
(* JavaScript values of a request body and of the environment: a type tag  *)
(* t, the text v of a string or number, and the properties of an object.   *)
(***************************************************************************)
JsUndefined == [t |-> "undefined", v |-> "", props |-> {}]
JsNull      == [t |-> "null", v |-> "", props |-> {}]
JsString(s) == [t |-> "string", v |-> s, props |-> {}]
JsNumber(s) == [t |-> "number", v |-> s, props |-> {}]
JsArray     == [t |-> "array", v |-> "", props |-> {}]
JsObject(p) == [t |-> "object", v |-> "", props |-> p]
Prop(k, x)  == [key |-> k, val |-> x]

\* !x
falsy(x) ==
    \/ x.t \in {"undefined", "null"}
    \/ x.t = "string" /\ x.v = ""
    \/ x.t = "number" /\ x.v = "0"

\* a == b: as ===, and also a number and a string of the same text, and null
\* and undefined.
looseEquals(a, b) ==
    \/ /\ a.t = b.t
       /\ a.t \in {"undefined", "null", "string", "number"}
       /\ a.v = b.v
    \/ /\ {a.t, b.t} = {"string", "number"}
       /\ a.v = b.v
    \/ {a.t, b.t} = {"undefined", "null"}

\* a === b: the same type and the same value; an object or an array equals no
\* other value.
strictEquals(a, b) ==
    /\ a.t = b.t
    /\ a.t \in {"undefined", "null", "string", "number"}
    /\ a.v = b.v

(***************************************************************************)
(* Request bodies: the Content-Type header, the syntax of the text, and    *)
(* the value the text denotes (the JSON document, or the fields of a form).*)
(***************************************************************************)
Body(ct, syntax, value) == [contentType |-> ct, syntax |-> syntax, value |-> value]

NoBody == Body("none", "empty", JsUndefined)

PasswordValues ==
    { JsString("s3cret"), JsString("wrong"), JsString(""), JsString("123"),
      JsNumber("123"), JsNull, JsArray }

JsonBodies ==
    { Body("application/json", "json", JsObject({Prop("password", p)})) : p \in PasswordValues }
    \cup
    { Body("application/json", "json", x) :
        x \in { JsObject({}), JsObject({Prop("pass", JsString("s3cret"))}), JsNull,
                JsString("s3cret"), JsNumber("123"), JsArray } }
    \cup
    { Body("application/x-www-form-urlencoded", "json",
           JsObject({Prop("password", JsString("s3cret"))})) }

FormBodies ==
    { Body("application/x-www-form-urlencoded", "form", JsObject({Prop("password", JsString(p))})) :
        p \in {"s3cret", "wrong", "123", ""} }

Bodies == JsonBodies \cup FormBodies \cup {NoBody}

(***************************************************************************)
(* src/app/work/unlock/action/route.ts                                     *)
(***************************************************************************)

\* A body reader that takes a form as well as a JSON text.
json_orForm(body) ==
    IF body.syntax \in {"json", "form"}
    THEN [threw |-> FALSE, value |-> body.value]
    ELSE [threw |-> TRUE, value |-> JsUndefined]

\* await req.json(): the document of a JSON text; it rejects on any other
\* text, whatever the Content-Type.
json(body) ==
    IF body.syntax = "json"
    THEN [threw |-> FALSE, value |-> body.value]
    ELSE [threw |-> TRUE, value |-> JsUndefined]

\* const { password } = value: a TypeError on null and undefined, the property
\* or undefined otherwise.
destructurePassword(value) ==
    IF value.t \in {"null", "undefined"}
    THEN [threw |-> TRUE, value |-> JsUndefined]
    ELSE IF \E p \in value.props : p.key = "password"
         THEN [threw |-> FALSE,
               value |-> (CHOOSE p \in value.props : p.key = "password").val]
         ELSE [threw |-> FALSE, value |-> JsUndefined]

\* The cookie with the 30 days of the commented-out maxAge.
caseAccessCookie_maxAge ==
    [name |-> "case_access", value |-> "1", path |-> <<"/">>, httpOnly |-> TRUE,
     sameSite |-> "lax", secure |-> (NODE_ENV = "production"),
     maxAge |-> "2592000", expires |-> "unset"]

\* The cookie with secure: true, whatever NODE_ENV is.
caseAccessCookie_alwaysSecure ==
    [name |-> "case_access", value |-> "1", path |-> <<"/">>, httpOnly |-> TRUE,
     sameSite |-> "lax", secure |-> TRUE,
     maxAge |-> "unset", expires |-> "unset"]

\* res.cookies.set("case_access", "1", {...})
caseAccessCookie ==
    [name |-> "case_access", value |-> "1", path |-> <<"/">>, httpOnly |-> TRUE,
     sameSite |-> "lax", secure |-> (NODE_ENV = "production"),
     maxAge |-> "unset", expires |-> "unset"]

\* The test that lets an unset expected value through (expected && ...).
denied_failOpen(password, expected) ==
    ~falsy(expected) /\ ~strictEquals(password, expected)

\* if (!expected || password !== expected)
denied(password, expected) ==
    falsy(expected) \/ ~strictEquals(password, expected)

\* The handler that refuses a client that already holds the cookie.
POST_onceOnly(r) ==
    LET parsed == json(r.body)
        field  == destructurePassword(parsed.value)
    IN  IF parsed.threw \/ field.threw THEN UnhandledError
        ELSE IF denied(field.value, CASE_PASS) \/ Cookie("case_access", "1") \in r.cookies
             THEN NextResponse_json("ok:false", 401)
        ELSE [NextResponse_json("ok:true", 200) EXCEPT !.cookies = {caseAccessCookie}]

\* The handler that reports a missing CASE_PASS as a server error of its own.
POST_tellsMisconfigured(r) ==
    LET parsed == json(r.body)
        field  == destructurePassword(parsed.value)
    IN  IF parsed.threw \/ field.threw THEN UnhandledError
        ELSE IF falsy(CASE_PASS) THEN NextResponse_json("error:not configured", 500)
        ELSE IF denied(field.value, CASE_PASS) THEN NextResponse_json("ok:false", 401)
        ELSE [NextResponse_json("ok:true", 200) EXCEPT !.cookies = {caseAccessCookie}]

\* The handler that clears the cookie when it denies.
POST_revokesOnDenial(r) ==
    LET parsed == json(r.body)
        field  == destructurePassword(parsed.value)
    IN  IF parsed.threw \/ field.threw THEN UnhandledError
        ELSE IF denied(field.value, CASE_PASS)
             THEN [NextResponse_json("ok:false", 401)
                      EXCEPT !.cookies = {[caseAccessCookie EXCEPT !.value = ""]}]
        ELSE [NextResponse_json("ok:true", 200) EXCEPT !.cookies = {caseAccessCookie}]

POST(r) ==
    LET parsed == json(r.body)
        field  == destructurePassword(parsed.value)
    IN  IF parsed.threw \/ field.threw THEN UnhandledError
        ELSE IF denied(field.value, CASE_PASS) THEN NextResponse_json("ok:false", 401)
        ELSE [NextResponse_json("ok:true", 200) EXCEPT !.cookies = {caseAccessCookie}]

(***************************************************************************)
(* State machine                                                           *)
(***************************************************************************)
NoRequest ==
    [handler |-> "none", pathname |-> <<>>, search |-> <<>>, cookies |-> {}, body |-> NoBody]

NoResponse ==
    [kind |-> "none", status |-> 0, location |-> NoLocation, body |-> "none", cookies |-> {}]

\* A URL: the site's own origin ("self") or another one, path and query.
Url(origin, pathname, search) ==
    [origin |-> origin, pathname |-> pathname, search |-> search]

NoUrl == Url("none", <<>>, <<>>)

\* UnlockClient is not on the page.
Unmounted == [mounted |-> FALSE, next |-> <<>>, loading |-> FALSE, error |-> "null"]

\* The browser starts on an empty page and without cookies.
InitBrowser ==
    /\ jar = {}
    /\ loc = NoUrl
    /\ nav = NoUrl
    /\ ui = Unmounted
    /\ inflight = NoBody
    /\ wanted = NoUrl
    /\ granted = FALSE
    /\ issued = {}

\* A form or JSON field: absent (null, undefined), or a text.
Field(text) == [present |-> TRUE, text |-> text]
Missing     == [present |-> FALSE, text |-> <<>>]

NoSubmission ==
    [handler |-> "none", method |-> "none", origin |-> "none", contentType |-> "none",
     syntax |-> "none", name |-> Missing, email |-> Missing, message |-> Missing,
     company |-> Missing, took_ms |-> Missing]

NoContactResponse == [status |-> 0, error |-> "none", detail |-> "none"]

\* No submission was handled yet and the rate-limit file does not exist.
\* The runs of send.php that can be under way at once.
Runs == {1, 2}

\* A run that has not begun, or has ended.
NotRunning == [pc |-> "none", at |-> 0, timestamps |-> <<>>, res |-> NoContactResponse]

\* CaseStudyShell as the server rendered it, before any effect has run, in a
\* browser with nothing stored and a light system colour scheme.
Unrendered ==
    [phase |-> "rendered", theme |-> "light", mounted |-> FALSE, listening |-> FALSE,
     applied |-> "none", stored |-> "none", atMount |-> "none", storage |-> TRUE,
     system |-> "light"]

\* Header before its first scroll event: nothing highlighted, no lock, no timer.
NoHighlight ==
    [activeSection |-> "null", clickLock |-> FALSE, timers |-> <<>>, clicked |-> "null"]

InitPages ==
    /\ shell = Unrendered
    /\ header = NoHighlight

InitContact ==
    /\ creq = NoSubmission
    /\ cres = NoContactResponse
    /\ sent = <<>>
    /\ now = 0
    /\ rateFile = <<>>
    /\ mails = <<>>
    /\ procs = [p \in Runs |-> NotRunning]

Init ==
    /\ CASE_PASS \in {JsUndefined, JsString(""), JsString("s3cret"), JsString("123")}
    /\ NODE_ENV \in {"production", "development"}
    /\ req = NoRequest
    /\ res = NoResponse
    /\ InitBrowser
    /\ RESEND_API_KEY = TRUE
    /\ InitContact
    /\ InitPages

\* The runtime hands a request to proxy() and takes its response.
Proxy ==
    \E pathname \in Pathnames, search \in Searches, cookies \in CookieJars :
        LET r == [handler |-> "proxy", pathname |-> pathname, search |-> search,
                  cookies |-> cookies, body |-> NoBody]
        IN  /\ req' = r
            /\ res' = proxy(r)
            /\ UNCHANGED <<CASE_PASS, NODE_ENV>>
            /\ UNCHANGED browserVars
            /\ UNCHANGED contactVars
            /\ UNCHANGED pageVars

\* The runtime hands a POST of /work/unlock/action to the route handler.
Unlock ==
    \E body \in Bodies, cookies \in {{}, {Cookie("case_access", "1")}} :
        LET r == [handler |-> "POST", pathname |-> P.unlock_action, search |-> <<>>,
                  cookies |-> cookies, body |-> body]
        IN  /\ req' = r
            /\ res' = POST(r)
            /\ UNCHANGED <<CASE_PASS, NODE_ENV>>
            /\ UNCHANGED browserVars
            /\ UNCHANGED contactVars
            /\ UNCHANGED pageVars

Next ==
    \/ Proxy
    \/ Unlock

Spec == Init /\ [][Next]_vars

(***************************************************************************)
(* A browser session: src/app/work/unlock/UnlockClientPage.tsx,            *)
(* src/app/work/unlock/UnlockClient.tsx, and the browser that sends its    *)
(* cookies with every request, stores the cookies the responses set and    *)
(* follows redirects.                                                      *)
(***************************************************************************)
H_https ==
    <<"h", "t", "t", "p", "s", ":">>

H_http ==
    <<"h", "t", "t", "p", ":">>

H_evil_absolute ==
    <<"h", "t", "t", "p", "s", ":", "/", "/", "e", "v", "i", "l", ".", "e", "x", "a", "m", "p", "l", "e">>

H_evil_relative ==
    <<"/", "/", "e", "v", "i", "l", ".", "e", "x", "a", "m", "p", "l", "e">>

\* export const config = { matcher: ["/work/:path*"] }
matcher(pathname) ==
    pathname = S_work \/ startsWith(pathname, S_work \o <<"/">>)

\* The browser's cookie store after a response: a cookie the response sets
\* replaces the one of that name.
store(cookies, setCookies) ==
    { c \in cookies : \A s \in setCookies : s.name # c.name }
        \cup { Cookie(s.name, s.value) : s \in setCookies }

\* Response.ok
ok(response) ==
    response.status >= 200 /\ response.status <= 299

\* new URL(href, location.href), as router.replace resolves its argument: a
\* protocol-relative or an absolute href leaves the site (the hosts used here
\* are never the site's own), any other href is a path with its query.
resolveHref(href) ==
    IF \/ startsWith(href, <<"/", "/">>)
       \/ startsWith(href, H_https)
       \/ startsWith(href, H_http)
    THEN Url("external", href, <<>>)
    ELSE LET i == indexOf(href, "?", 1)
         IN  IF i = 0 THEN Url("self", href, <<>>)
             ELSE Url("self", SubSeq(href, 1, i - 1), SubSeq(href, i, Len(href)))

\* UnlockClientPage: searchParams.get("next") ?? "/work/calibration-software"
UnlockClientPage(search) ==
    LET next == searchParamsGet(parseSearch(search), S_next)
    IN  [mounted |-> TRUE,
         next    |-> IF next = Null THEN P.calibration ELSE next,
         loading |-> FALSE,
         error   |-> "null"]

\* The document the site serves at a URL: the unlock page at /work/unlock.
render(url) ==
    IF url.pathname = S_work_unlock THEN UnlockClientPage(url.search) ELSE Unmounted

\* onSubmit up to the fetch: setError(null); setLoading(true)
beforeFetch(u) ==
    [u EXCEPT !.error = "null", !.loading = TRUE]

\* onSubmit after the fetch, with the state from before the fetch left as it is.
afterFetch_keepsLoading(u, response) ==
    IF ~ok(response)
    THEN [ui |-> [u EXCEPT !.error = "Access denied"], nav |-> NoUrl]
    ELSE [ui |-> u, nav |-> resolveHref(u.next)]

\* onSubmit after the fetch: on a status that is not OK, setError("Access
\* denied"); setLoading(false); return; otherwise router.replace(next).
afterFetch(u, response) ==
    IF ~ok(response)
    THEN [ui |-> [u EXCEPT !.error = "Access denied", !.loading = FALSE], nav |-> NoUrl]
    ELSE [ui |-> u, nav |-> resolveHref(u.next)]

\* The URLs the user opens: pages of the site, and unlock links whose next
\* parameter somebody else chose.
VisitUrls ==
    { Url("self", p, q) :
        p \in {P.root, P.calibration, P.dex, P.work_api, P.unlock, P.unlock_notes},
        q \in {Q.none, Q.ref, Q.next} }
    \cup
    { Url("self", P.unlock, searchOf(<<[name |-> S_next, value |-> h]>>)) :
        h \in {H_evil_absolute, H_evil_relative} }

\* The passwords the user types (the input is required: never empty).
TypedPasswords == {"s3cret", "wrong", "123"}

\* The user opens a URL.
Visit ==
    \E url \in VisitUrls :
        /\ nav = NoUrl
        /\ inflight = NoBody
        /\ nav' = url
        /\ wanted' = url
        /\ UNCHANGED <<CASE_PASS, NODE_ENV, req, res, jar, loc, ui, inflight, granted, issued>>
        /\ UNCHANGED contactVars
        /\ UNCHANGED pageVars

\* The browser requests the URL it is heading for, with its cookies.  A URL of
\* the matcher goes through proxy(); a redirect is followed by the next request.
Request ==
    /\ nav # NoUrl
    /\ IF nav.origin # "self"
       THEN /\ loc' = nav
            /\ nav' = NoUrl
            /\ ui' = Unmounted
            /\ UNCHANGED <<req, res, jar>>
       ELSE LET r == [handler  |-> IF matcher(nav.pathname) THEN "proxy" ELSE "page",
                      pathname |-> nav.pathname, search |-> nav.search,
                      cookies  |-> jar, body |-> NoBody]
                response == IF matcher(nav.pathname) THEN proxy(r) ELSE NextResponse_next
            IN  /\ req' = r
                /\ res' = response
                /\ jar' = store(jar, response.cookies)
                /\ IF response.kind = "redirect"
                   THEN /\ nav' = Url("self", response.location.pathname,
                                      response.location.search)
                        /\ UNCHANGED <<loc, ui>>
                   ELSE /\ nav' = NoUrl
                        /\ loc' = nav
                        /\ ui' = render(nav)
    /\ UNCHANGED <<CASE_PASS, NODE_ENV, inflight, wanted, granted, issued>>
    /\ UNCHANGED contactVars
    /\ UNCHANGED pageVars

\* The user submits the unlock form: onSubmit runs up to its await.
Submit ==
    \E password \in TypedPasswords :
        /\ ui.mounted
        /\ ~ui.loading
        /\ nav = NoUrl
        /\ inflight = NoBody
        /\ ui' = beforeFetch(ui)
        /\ inflight' = Body("application/json", "json",
                            JsObject({Prop("password", JsString(password))}))
        /\ UNCHANGED <<CASE_PASS, NODE_ENV, req, res, jar, loc, nav, wanted, granted, issued>>
        /\ UNCHANGED contactVars
        /\ UNCHANGED pageVars

\* The unlock endpoint answers the fetch, the browser stores the cookies of
\* the response, and onSubmit runs on with it.
Answer ==
    /\ inflight # NoBody
    /\ LET r == [handler |-> "POST", pathname |-> P.unlock_action, search |-> <<>>,
                 cookies |-> jar, body |-> inflight]
           response == POST(r)
           after    == afterFetch(ui, response)
       IN  /\ req' = r
           /\ res' = response
           /\ jar' = store(jar, response.cookies)
           /\ ui' = after.ui
           /\ nav' = after.nav
           /\ issued' = issued \cup response.cookies
           /\ granted' = (granted \/ ( /\ CASE_PASS.t = "string"
                                       /\ CASE_PASS.v # ""
                                       /\ Prop("password", CASE_PASS) \in inflight.value.props ))
    /\ inflight' = NoBody
    /\ UNCHANGED <<CASE_PASS, NODE_ENV, loc, wanted>>
    /\ UNCHANGED contactVars
    /\ UNCHANGED pageVars

NextSession ==
    \/ Visit
    \/ Request
    \/ Submit
    \/ Answer

Session == Init /\ [][NextSession]_vars

\* The fetch of onSubmit rejects (the network fails): the request reaches no
\* handler, await throws and onSubmit ends there, in an unhandled rejection.
Reject ==
    /\ inflight # NoBody
    /\ inflight' = NoBody
    /\ UNCHANGED <<CASE_PASS, NODE_ENV, req, res, jar, loc, nav, ui, wanted, granted, issued>>
    /\ UNCHANGED contactVars
    /\ UNCHANGED pageVars

NextNetwork ==
    \/ NextSession
    \/ Reject

\* The session over a network that can fail; every fetch settles in the end,
\* answered or rejected.
Network == Init /\ [][NextNetwork]_vars /\ WF_vars(Answer \/ Reject)

(***************************************************************************)
(* Texts of contact submissions                                            *)
(***************************************************************************)
maxLen == 2000

burstWindowSeconds == 60

burstMaxRequests == 2

hourWindowSeconds == 3600

hourMaxRequests == 8

minHumanTimeMs == 1200

maxHumanTimeMs == 3600000

\* The last instant the clock is advanced from.
MaxNow == 61

\* n times the character c.
repeat(c, n) == [i \in 1..n |-> c]

\* Texts of the name and company fields.
T ==
    [name |-> <<" ", "A", "l", " ">>,
     blank |-> <<" ", " ">>,
     tag |-> <<"<", "b", ">", "<", "/", "b", ">">>,
     inject |-> <<"A", "l", "%", "0", "A", "B", "c", "c">>,
     bot |-> <<"b", "o", "t">>]

\* Texts of the email field.
E ==
    [ok |-> <<"a", "@", "b", ".", "c", "o">>,
     nodot |-> <<"a", "@", "b">>,
     space |-> <<"a", " ", "b", "@", "c", ".", "d", "e">>]

\* Texts of the message field.
M ==
    [hi |-> <<"h", "i">>,
     max |-> repeat("x", maxLen),
     padded |-> <<" ">> \o repeat("x", maxLen) \o <<" ", "\n">>,
     long |-> repeat("x", maxLen + 1)]

\* Texts of the took_ms field.
K ==
    [fast |-> <<"5", "0", "0">>,
     human |-> <<"1", "5", "0", "0">>,
     zero |-> <<"0">>,
     negative |-> <<"-", "5">>,
     text |-> <<"a", "b", "c">>,
     leading |-> <<"9", "0", "0", "m", "s">>,
     stale |-> <<"3", "6", "0", "0", "0", "0", "1">>]

(***************************************************************************)
(* src/app/api/contact/route.ts                                            *)
(***************************************************************************)
Whitespace == {" ", "\t", "\n", "\r"}

RECURSIVE trimStart(_)
trimStart(s) ==
    IF s # <<>> /\ Head(s) \in Whitespace THEN trimStart(Tail(s)) ELSE s

RECURSIVE trimEnd(_)
trimEnd(s) ==
    IF s # <<>> /\ s[Len(s)] \in Whitespace THEN trimEnd(SubSeq(s, 1, Len(s) - 1)) ELSE s

\* String.prototype.trim, and PHP's trim
trim(s) == trimEnd(trimStart(s))

\* clean(v): String(v ?? "").trim()
clean(v) == trim(IF v.present THEN v.text ELSE <<>>)

\* isEmail(s): /^[^\s@]+@[^\s@]+\.[^\s@]+$/
isEmail(s) ==
    \E i \in 2..Len(s) :
        /\ s[i] = "@"
        /\ \A k \in 1..Len(s) : k # i => s[k] \notin Whitespace \cup {"@"}
        /\ \E j \in (i + 2)..(Len(s) - 1) : s[j] = "."

\* The fields of a submission, each through clean().
cleaned(r) ==
    [threw |-> FALSE, name |-> clean(r.name), email |-> clean(r.email),
     message |-> clean(r.message), company |-> clean(r.company)]

noFields ==
    [threw |-> FALSE, name |-> <<>>, email |-> <<>>, message |-> <<>>, company |-> <<>>]

\* readPayload(req): req.formData() for the form content types, and it throws
\* on a body that is no form; req.json().catch(() => ({})) for JSON; otherwise
\* formData() throws on the content type and req.json() follows, on a body that
\* formData() may have consumed (bodyUsable tells).
readPayload(r, bodyUsable) ==
    IF r.contentType \in {"multipart/form-data", "application/x-www-form-urlencoded"}
    THEN IF r.syntax = "form" THEN cleaned(r) ELSE [noFields EXCEPT !.threw = TRUE]
    ELSE IF r.contentType = "application/json"
    THEN IF r.syntax = "json" THEN cleaned(r) ELSE noFields
    ELSE IF r.syntax = "json" /\ bodyUsable THEN cleaned(r) ELSE noFields

ContactResponse(status, error, detail) ==
    [status |-> status, error |-> error, detail |-> detail]

\* The handler without the honeypot test.
contactPOST_noHoneypot(r, provider, bodyUsable) ==
    LET p == readPayload(r, bodyUsable)
        call == [via |-> "resend", name |-> p.name, reply_to |-> p.email, text |-> p.message]
    IN  IF p.threw
        THEN [res |-> ContactResponse(500, "Unexpected server error", "exception message"),
              sent |-> <<>>]
        ELSE IF p.name = <<>> \/ p.email = <<>> \/ p.message = <<>>
        THEN [res |-> ContactResponse(400, "All fields are required", "none"), sent |-> <<>>]
        ELSE IF ~isEmail(p.email)
        THEN [res |-> ContactResponse(400, "Invalid email address", "none"), sent |-> <<>>]
        ELSE IF ~RESEND_API_KEY
        THEN [res |-> ContactResponse(500, "Server not configured (missing RESEND_API_KEY)",
                                      "none"),
              sent |-> <<>>]
        ELSE IF provider = "throws"
        THEN [res |-> ContactResponse(500, "Unexpected server error", "exception message"),
              sent |-> <<call>>]
        ELSE IF provider = "fail"
        THEN [res |-> ContactResponse(500, "Email send failed", "provider response text"),
              sent |-> <<call>>]
        ELSE [res |-> ContactResponse(200, "none", "none"), sent |-> <<call>>]

\* POST of /api/contact; provider is what the fetch of api.resend.com does:
\* "ok", "fail" (a status that is not OK) or "throws".
contactPOST(r, provider, bodyUsable) ==
    LET p == readPayload(r, bodyUsable)
        call == [via |-> "resend", name |-> p.name, reply_to |-> p.email, text |-> p.message]
    IN  IF p.threw
        THEN [res |-> ContactResponse(500, "Unexpected server error", "exception message"),
              sent |-> <<>>]
        ELSE IF p.company # <<>>
        THEN [res |-> ContactResponse(400, "Submission rejected", "none"), sent |-> <<>>]
        ELSE IF p.name = <<>> \/ p.email = <<>> \/ p.message = <<>>
        THEN [res |-> ContactResponse(400, "All fields are required", "none"), sent |-> <<>>]
        ELSE IF ~isEmail(p.email)
        THEN [res |-> ContactResponse(400, "Invalid email address", "none"), sent |-> <<>>]
        ELSE IF ~RESEND_API_KEY
        THEN [res |-> ContactResponse(500, "Server not configured (missing RESEND_API_KEY)",
                                      "none"),
              sent |-> <<>>]
        ELSE IF provider = "throws"
        THEN [res |-> ContactResponse(500, "Unexpected server error", "exception message"),
              sent |-> <<call>>]
        ELSE IF provider = "fail"
        THEN [res |-> ContactResponse(500, "Email send failed", "provider response text"),
              sent |-> <<call>>]
        ELSE [res |-> ContactResponse(200, "none", "none"), sent |-> <<call>>]

(***************************************************************************)
(* public/send.php                                                         *)
(***************************************************************************)
\* $_POST: filled from a form body only.
_POST(r) ==
    IF /\ r.contentType \in {"multipart/form-data", "application/x-www-form-urlencoded"}
       /\ r.syntax = "form"
    THEN r
    ELSE [r EXCEPT !.name = Missing, !.email = Missing, !.message = Missing,
                   !.company = Missing, !.took_ms = Missing]

\* $v ?? ''
orEmpty(v) == IF v.present THEN v.text ELSE <<>>

\* strip_tags: drops "<" ... ">", and all that follows a tag never closed.
RECURSIVE strip_tags(_)
strip_tags(s) ==
    IF s = <<>> THEN <<>>
    ELSE IF Head(s) = "<" /\ Len(s) > 1 /\ s[2] \notin Whitespace
    THEN LET close == indexOf(s, ">", 1)
         IN  IF close = 0 THEN <<>> ELSE strip_tags(SubSeq(s, close + 1, Len(s)))
    ELSE <<Head(s)>> \o strip_tags(Tail(s))

\* clean($v) of send.php
php_clean(v) == trim(strip_tags(v))

Digits == {"0", "1", "2", "3", "4", "5", "6", "7", "8", "9"}

digit(c) == CHOOSE d \in 0..9 : ToString(d) = c

\* (int)$v for a text of digits: the leading digits, 0 when there are none.
RECURSIVE intval(_, _)
intval(s, acc) ==
    IF s = <<>> \/ Head(s) \notin Digits THEN acc
    ELSE intval(Tail(s), 10 * acc + digit(Head(s)))

\* (int)$v of a string: white space, a sign, then the leading digits.
int(s) ==
    LET t == trimStart(s)
    IN  IF t # <<>> /\ Head(t) = "-" THEN 0 - intval(Tail(t), 0)
        ELSE IF t # <<>> /\ Head(t) = "+" THEN intval(Tail(t), 0)
        ELSE intval(t, 0)

\* filter_var($email, FILTER_VALIDATE_EMAIL): one "@", a dotted domain without
\* empty labels, no whitespace and none of the characters of an address list.
FILTER_VALIDATE_EMAIL(s) ==
    /\ isEmail(s)
    /\ \A k \in 1..Len(s) : s[k] \notin {"<", ">", "(", ")", ",", ";", ":", "[", "]"}
    /\ \A k \in 1..(Len(s) - 1) : ~(s[k] \in {".", "@"} /\ s[k + 1] = ".")

lower(c) == IF c = "A" THEN "a" ELSE IF c = "D" THEN "d" ELSE c

\* stripos($s, $b) !== false
stripos(s, b) ==
    \E i \in 1..(Len(s) - Len(b) + 1) :
        \A k \in 1..Len(b) : lower(s[i + k - 1]) = b[k]

bad == {<<"\r">>, <<"\n">>, <<"%", "0", "a">>, <<"%", "0", "d">>}

PhpResponse(status, error) == [status |-> status, error |-> error, detail |-> "none"]

\* The timestamps of the last hour.
recent(file, t) == SelectSeq(file, LAMBDA ts : (t - ts) <= hourWindowSeconds)

\* The count that leaves out a request made exactly one window ago.
burstCount_openWindow(file, t) ==
    Len(SelectSeq(recent(file, t), LAMBDA ts : (t - ts) < burstWindowSeconds))

burstCount(file, t) == Len(SelectSeq(recent(file, t), LAMBDA ts : (t - ts) <= burstWindowSeconds))

\* The script with a trap that also catches a request reporting no elapsed time.
send_php_trapsUnreported(r, file, t, mailOk) ==
    LET name    == php_clean(orEmpty(_POST(r).name))
        email   == php_clean(orEmpty(_POST(r).email))
        message == trim(orEmpty(_POST(r).message))
        company == php_clean(orEmpty(_POST(r).company))
        tookMs  == int(orEmpty(_POST(r).took_ms))
        reject(status, error) ==
            [res |-> PhpResponse(status, error), sent |-> <<>>, file |-> file]
    IN  IF r.method # "POST" THEN reject(405, "Method not allowed")
        ELSE IF r.origin = "other" THEN reject(403, "Invalid origin")
        ELSE IF company # <<>> THEN reject(400, "Submission rejected")
        ELSE IF tookMs < minHumanTimeMs
        THEN reject(429, "Too fast. Please try again.")
        ELSE IF tookMs > 0 /\ tookMs > maxHumanTimeMs
        THEN reject(400, "Invalid submission time.")
        ELSE IF name = <<>> \/ email = <<>> \/ message = <<>>
        THEN reject(400, "All fields are required")
        ELSE IF ~FILTER_VALIDATE_EMAIL(email) THEN reject(400, "Invalid email address")
        ELSE IF Len(message) > maxLen THEN reject(400, "Message too long")
        ELSE IF \E b \in bad : stripos(email, b) \/ stripos(name, b)
        THEN reject(400, "Invalid input")
        ELSE IF burstCount(file, t) >= burstMaxRequests
        THEN reject(429, "Too many messages. Please wait a bit and try again.")
        ELSE IF Len(recent(file, t)) >= hourMaxRequests
        THEN reject(429, "Hourly limit reached. Please try again later.")
        ELSE [res  |-> IF mailOk THEN PhpResponse(200, "none")
                       ELSE PhpResponse(500, "Message could not be sent"),
              sent |-> <<[via |-> "mail", name |-> name, reply_to |-> email,
                          text |-> message]>>,
              file |-> recent(file, t) \o <<t>>]

\* send.php, run from its first line to its exit; mailOk is what mail() returns.
send_php(r, file, t, mailOk) ==
    LET name    == php_clean(orEmpty(_POST(r).name))
        email   == php_clean(orEmpty(_POST(r).email))
        message == trim(orEmpty(_POST(r).message))
        company == php_clean(orEmpty(_POST(r).company))
        tookMs  == int(orEmpty(_POST(r).took_ms))
        reject(status, error) ==
            [res |-> PhpResponse(status, error), sent |-> <<>>, file |-> file]
    IN  IF r.method # "POST" THEN reject(405, "Method not allowed")
        ELSE IF r.origin = "other" THEN reject(403, "Invalid origin")
        ELSE IF company # <<>> THEN reject(400, "Submission rejected")
        ELSE IF tookMs > 0 /\ tookMs < minHumanTimeMs
        THEN reject(429, "Too fast. Please try again.")
        ELSE IF tookMs > 0 /\ tookMs > maxHumanTimeMs
        THEN reject(400, "Invalid submission time.")
        ELSE IF name = <<>> \/ email = <<>> \/ message = <<>>
        THEN reject(400, "All fields are required")
        ELSE IF ~FILTER_VALIDATE_EMAIL(email) THEN reject(400, "Invalid email address")
        ELSE IF Len(message) > maxLen THEN reject(400, "Message too long")
        ELSE IF \E b \in bad : stripos(email, b) \/ stripos(name, b)
        THEN reject(400, "Invalid input")
        ELSE IF burstCount(file, t) >= burstMaxRequests
        THEN reject(429, "Too many messages. Please wait a bit and try again.")
        ELSE IF Len(recent(file, t)) >= hourMaxRequests
        THEN reject(429, "Hourly limit reached. Please try again later.")
        ELSE [res  |-> IF mailOk THEN PhpResponse(200, "none")
                       ELSE PhpResponse(500, "Message could not be sent"),
              sent |-> <<[via |-> "mail", name |-> name, reply_to |-> email,
                          text |-> message]>>,
              file |-> recent(file, t) \o <<t>>]

(***************************************************************************)
(* The contact relay under requests: /api/contact and /send.php            *)
(***************************************************************************)
\* A well-formed submission, as the contact form makes it.
Good ==
    [handler |-> "none", method |-> "POST", origin |-> "same",
     contentType |-> "multipart/form-data", syntax |-> "form",
     name |-> Field(T.name), email |-> Field(E.ok), message |-> Field(M.hi),
     company |-> Field(<<>>), took_ms |-> Missing]

Names == {Missing, Field(T.blank), Field(T.tag), Field(T.inject)}

Emails == {Missing, Field(T.blank), Field(E.nodot), Field(E.space)}

Messages == {Missing, Field(T.blank), Field(M.max), Field(M.padded), Field(M.long)}

Companies == {Missing, Field(T.blank), Field(T.bot)}

Tooks ==
    {Field(K.fast), Field(K.human), Field(K.zero), Field(K.negative), Field(K.text),
     Field(K.leading), Field(K.stale)}

\* Content type and what the body holds.
Encodings ==
    {<<"application/json", "json">>, <<"application/json", "text">>,
     <<"application/x-www-form-urlencoded", "form">>, <<"multipart/form-data", "form">>,
     <<"multipart/form-data", "text">>, <<"text/plain", "json">>, <<"text/plain", "text">>}

\* Good, and Good with one or two of its parts replaced.
Submissions ==
    LET fields ==
            {Good}
            \cup {[Good EXCEPT !.name = v] : v \in Names}
            \cup {[Good EXCEPT !.email = v] : v \in Emails}
            \cup {[Good EXCEPT !.message = v] : v \in Messages}
            \cup {[Good EXCEPT !.company = v] : v \in Companies}
            \cup {[Good EXCEPT !.took_ms = v] : v \in Tooks}
            \cup {[Good EXCEPT !.company = Field(T.bot), !.message = Field(M.long)],
                  [Good EXCEPT !.email = Field(E.nodot), !.message = Field(M.long)],
                  [Good EXCEPT !.took_ms = Field(K.fast), !.message = Field(M.long)],
                  [Good EXCEPT !.took_ms = Field(K.human), !.message = Field(M.long)]}
    IN  fields
        \cup {[Good EXCEPT !.contentType = e[1], !.syntax = e[2]] : e \in Encodings}
        \cup {[Good EXCEPT !.contentType = e[1], !.syntax = e[2], !.message = Field(M.long)] :
                e \in Encodings}

\* The clock steps.
Ticks == {61}

InitRelay ==
    /\ CASE_PASS = JsUndefined
    /\ NODE_ENV = "production"
    /\ req = NoRequest
    /\ res = NoResponse
    /\ InitBrowser
    /\ RESEND_API_KEY \in BOOLEAN
    /\ InitContact
    /\ InitPages

\* The times of the calls of mail() so far, with the call of this request.
mailed(times, calls, t) == IF calls = <<>> THEN times ELSE Append(times, t)

\* The runtime hands a POST of /api/contact to the route handler.
ContactPost ==
    \E s \in Submissions, provider \in {"ok", "fail", "throws"}, bodyUsable \in BOOLEAN :
        LET r   == [s EXCEPT !.handler = "route.ts"]
            out == contactPOST(r, provider, bodyUsable)
        IN  /\ bodyUsable => s.contentType = "text/plain"
            /\ creq' = r
            /\ cres' = out.res
            /\ sent' = out.sent
            /\ UNCHANGED <<RESEND_API_KEY, now, rateFile, mails, procs>>
            /\ UNCHANGED gateVars
            /\ UNCHANGED browserVars
            /\ UNCHANGED pageVars

\* The web server runs send.php on a request, of one client (one rate file).
SendPhp ==
    \E s \in Submissions, method \in {"POST", "GET"}, origin \in {"none", "same", "other"},
       mailOk \in BOOLEAN :
        LET r   == [s EXCEPT !.handler = "send.php", !.method = method, !.origin = origin]
            out == send_php(r, rateFile, now, mailOk)
        IN  /\ method = "GET" => s = Good
            /\ origin # "same" => s = Good
            /\ creq' = r
            /\ cres' = out.res
            /\ sent' = out.sent
            /\ rateFile' = out.file
            /\ mails' = mailed(mails, out.sent, now)
            /\ UNCHANGED <<RESEND_API_KEY, now, procs>>
            /\ UNCHANGED gateVars
            /\ UNCHANGED browserVars
            /\ UNCHANGED pageVars

\* Time passes.
Tick ==
    \E d \in Ticks :
        /\ now + d <= MaxNow
        /\ now' = now + d
        /\ UNCHANGED <<RESEND_API_KEY, creq, cres, sent, rateFile, mails, procs>>
        /\ UNCHANGED gateVars
        /\ UNCHANGED browserVars
        /\ UNCHANGED pageVars

NextRelay ==
    \/ ContactPost
    \/ SendPhp
    \/ Tick

Relay == InitRelay /\ [][NextRelay]_vars

(***************************************************************************)
(* send.php under the requests of one client, one after another            *)
(***************************************************************************)
\* The instants, in seconds, at which the client sends requests.
Instants == {0, 60, 61, 122, 183, 244, 3600, 3601, 3661}

\* What one client sends: the form as filled in, and a submission the
\* validation rejects.
ClientSubmissions ==
    {[Good EXCEPT !.took_ms = Field(K.human)], [Good EXCEPT !.email = Field(E.nodot)]}

InitRateLimit ==
    /\ InitRelay
    /\ RESEND_API_KEY

\* The web server runs send.php on the client's next request.
PhpRequest ==
    \E s \in ClientSubmissions, mailOk \in BOOLEAN :
        LET r   == [s EXCEPT !.handler = "send.php"]
            out == send_php(r, rateFile, now, mailOk)
        IN  /\ creq' = r
            /\ cres' = out.res
            /\ sent' = out.sent
            /\ rateFile' = out.file
            /\ mails' = mailed(mails, out.sent, now)
            /\ UNCHANGED <<RESEND_API_KEY, now, procs>>
            /\ UNCHANGED gateVars
            /\ UNCHANGED browserVars
            /\ UNCHANGED pageVars

\* The client waits.
Pause ==
    \E t \in Instants :
        /\ t > now
        /\ now' = t
        /\ UNCHANGED <<RESEND_API_KEY, creq, cres, sent, rateFile, mails, procs>>
        /\ UNCHANGED gateVars
        /\ UNCHANGED browserVars
        /\ UNCHANGED pageVars

NextRateLimit ==
    \/ PhpRequest
    \/ Pause

RateLimit == InitRateLimit /\ [][NextRateLimit]_vars

(***************************************************************************)
(* send.php under two requests of one client at once: each run reads the   *)
(* rate file, checks the limits, writes the file back and calls mail(),    *)
(* and the web server interleaves the runs                                 *)
(***************************************************************************)
\* The submission both requests carry.
Filled == [Good EXCEPT !.handler = "send.php", !.took_ms = Field(K.human)]

RaceUnchanged ==
    /\ UNCHANGED <<RESEND_API_KEY, creq, cres, sent, now>>
    /\ UNCHANGED gateVars
    /\ UNCHANGED browserVars
    /\ UNCHANGED pageVars

\* A run from its first line to the end of the limit checks: $now = time(),
\* file_get_contents, array_filter, the burst and the hour check.
ReadAndCheck(p) ==
    LET out == send_php(Filled, rateFile, now, TRUE)
    IN  /\ procs[p].pc = "none"
        /\ procs' = [procs EXCEPT ![p] =
                        IF out.sent = <<>>
                        THEN [NotRunning EXCEPT !.res = out.res]
                        ELSE [pc |-> "checked", at |-> now,
                              timestamps |-> recent(rateFile, now),
                              res |-> NoContactResponse]]
        /\ UNCHANGED <<rateFile, mails>>
        /\ RaceUnchanged

\* $data['timestamps'][] = $now; file_put_contents($file, ..., LOCK_EX): the
\* file becomes what this run read, with its own timestamp.
Persist(p) ==
    /\ procs[p].pc = "checked"
    /\ rateFile' = procs[p].timestamps \o <<procs[p].at>>
    /\ procs' = [procs EXCEPT ![p].pc = "persisted"]
    /\ UNCHANGED mails
    /\ RaceUnchanged

\* mail(), and the response of the run.
Mail(p) ==
    \E mailOk \in BOOLEAN :
        /\ procs[p].pc = "persisted"
        /\ mails' = Append(mails, procs[p].at)
        /\ procs' = [procs EXCEPT ![p] =
                        [NotRunning EXCEPT !.res =
                            send_php(Filled, <<>>, procs[p].at, mailOk).res]]
        /\ UNCHANGED rateFile
        /\ RaceUnchanged

NextRace ==
    \E p \in Runs :
        \/ ReadAndCheck(p)
        \/ Persist(p)
        \/ Mail(p)

Race == InitRateLimit /\ [][NextRace]_vars

(***************************************************************************)
(* CaseStudyShell (src/unnamed/part_002)                                   *)
(***************************************************************************)
\* getStoredTheme(): the saved theme, null for any other value and when
\* localStorage throws.
getStoredTheme(s) ==
    IF s.storage /\ s.stored \in {"light", "dark"} THEN s.stored ELSE "null"

\* getSystemTheme()
getSystemTheme(s) == s.system

\* The first effect: the theme at mount, from localStorage or else the system.
mountEffect(s) ==
    LET stored  == getStoredTheme(s)
        initial == IF stored # "null" THEN stored ELSE getSystemTheme(s)
    IN  [s EXCEPT !.theme = initial, !.applied = initial, !.mounted = TRUE,
                  !.atMount = stored, !.phase = "updated"]

\* The second effect: applyTheme(theme) and localStorage.setItem, whose
\* exception is ignored.
persistEffect(s) ==
    IF ~s.mounted THEN s
    ELSE [s EXCEPT !.applied = s.theme,
                   !.stored = IF s.storage THEN s.theme ELSE s.stored]

\* The third effect: the listener for changes of the system colour scheme,
\* added only when getStoredTheme() gives null.
listenEffect(s) ==
    IF ~s.mounted THEN s
    ELSE IF getStoredTheme(s) # "null" THEN s
    ELSE [s EXCEPT !.listening = TRUE]

other(mode) == IF mode = "dark" THEN "light" ELSE "dark"

\* toggleTheme, and the effect its state change runs.
toggleTheme(s) == persistEffect([s EXCEPT !.theme = other(s.theme)])

\* onChange of the media query list, and the effect its state change runs.
onChange(s) == persistEffect([s EXCEPT !.theme = getSystemTheme(s)])

\* What localStorage holds under kpk_theme when a page is opened.
StoredValues == {"none", "light", "dark", "blue"}

InitTheme ==
    /\ CASE_PASS = JsUndefined
    /\ NODE_ENV = "production"
    /\ req = NoRequest
    /\ res = NoResponse
    /\ InitBrowser
    /\ RESEND_API_KEY = TRUE
    /\ InitContact
    /\ header = NoHighlight
    /\ \E stored \in StoredValues, system \in {"light", "dark"}, storage \in BOOLEAN :
        shell = [Unrendered EXCEPT !.stored = stored, !.system = system, !.storage = storage]

ShellUnchanged ==
    /\ UNCHANGED header
    /\ UNCHANGED gateVars
    /\ UNCHANGED browserVars
    /\ UNCHANGED contactVars

\* The effects after the first commit, in the order of their declaration; the
\* second and the third see mounted = false and return.
Mount ==
    /\ shell.phase = "rendered"
    /\ shell' = mountEffect(shell)
    /\ ShellUnchanged

\* The effects after the commit of setTheme and setMounted(true): the second,
\* then the third.
Commit ==
    /\ shell.phase = "updated"
    /\ shell' = [listenEffect(persistEffect(shell)) EXCEPT !.phase = "mounted"]
    /\ ShellUnchanged

\* The user presses the theme button of the top navigation.
Toggle ==
    /\ shell.phase = "mounted"
    /\ shell' = toggleTheme(shell)
    /\ ShellUnchanged

\* The system colour scheme changes; the listener, when there is one, runs.
SystemChange ==
    LET changed == [shell EXCEPT !.system = other(shell.system)]
    IN  /\ shell' = IF shell.listening THEN onChange(changed) ELSE changed
        /\ ShellUnchanged

\* The user opens another case study: the shell is rendered and mounted anew.
Reopen ==
    /\ shell.phase = "mounted"
    /\ shell' = [Unrendered EXCEPT !.stored = shell.stored, !.system = shell.system,
                                   !.storage = shell.storage]
    /\ ShellUnchanged

\* Another tab of the site, or the user clearing the site's data, changes what
\* localStorage holds under kpk_theme.
StorageWrite ==
    \E value \in StoredValues :
        /\ shell.storage
        /\ value # shell.stored
        /\ shell' = [shell EXCEPT !.stored = value]
        /\ ShellUnchanged

NextTheme ==
    \/ Mount
    \/ Commit
    \/ Toggle
    \/ SystemChange
    \/ Reopen
    \/ StorageWrite

Theme == InitTheme /\ [][NextTheme]_vars

(***************************************************************************)
(* Header of the home page (src/unnamed/part_005): the scroll spy, the     *)
(* click lock and its timers.  All timers have the delay CLICK_LOCK_MS, so *)
(* they fire in the order in which they were set: the pending timers are a *)
(* queue.                                                                  *)
(***************************************************************************)
SECTIONS == {"work", "about", "contact"}

\* The pending timers a click may leave at most.
MaxTimers == 6

\* The timer of lockClickSpy, and the timer of navTo for section id.
UnlockTimer == [run |-> "unlock", id |-> "null"]
SetTimer(id) == [run |-> "set", id |-> id]

\* window.clearTimeout(unlockTimerRef.current): the timer of the last
\* lockClickSpy, when it is still pending, is dropped.
clearTimeout(timers) == SelectSeq(timers, LAMBDA t : t.run # "unlock")

\* onScroll with what getActiveSection() returns.
onScroll(h, current) ==
    IF h.clickLock THEN h ELSE [h EXCEPT !.activeSection = current]

\* lockClickSpy()
lockClickSpy(h) ==
    [h EXCEPT !.clickLock = TRUE, !.timers = Append(clearTimeout(h.timers), UnlockTimer)]

\* navTo(id): setActiveSection(id); lockClickSpy(); scrollToId(id); setTimeout.
navTo(h, id) ==
    LET locked == lockClickSpy([h EXCEPT !.activeSection = id, !.clicked = id])
    IN  [locked EXCEPT !.timers = Append(locked.timers, SetTimer(id))]

\* The callback of the timer that is due.
timeout(h) ==
    LET t    == Head(h.timers)
        rest == [h EXCEPT !.timers = Tail(h.timers)]
    IN  IF t.run = "unlock"
        THEN [rest EXCEPT !.clickLock = FALSE]
        ELSE [rest EXCEPT !.activeSection = t.id]

InitHome ==
    /\ InitRelay
    /\ RESEND_API_KEY

HeaderUnchanged ==
    /\ UNCHANGED shell
    /\ UNCHANGED gateVars
    /\ UNCHANGED browserVars
    /\ UNCHANGED contactVars

\* A scroll event, of the user or of the smooth scrolling of scrollIntoView.
Scroll ==
    \E current \in SECTIONS \cup {"null"} :
        /\ header' = onScroll(header, current)
        /\ HeaderUnchanged

\* The user clicks a link of the primary navigation.
Click ==
    \E id \in SECTIONS :
        /\ Len(navTo(header, id).timers) <= MaxTimers
        /\ header' = navTo(header, id)
        /\ HeaderUnchanged

\* The timer that is due fires.
Timeout ==
    /\ header.timers # <<>>
    /\ header' = timeout(header)
    /\ HeaderUnchanged

NextHome ==
    \/ Scroll
    \/ Click
    \/ Timeout

Home == InitHome /\ [][NextHome]_vars

(***************************************************************************)
(* Vocabulary of the properties                                            *)
(***************************************************************************)

\* p is the path prefix itself or lies beneath it, segment by segment.
UnderPath(p, prefix) ==
    p = prefix \/ startsWith(p, prefix \o <<"/">>)

UnderWork       == UnderPath(req.pathname, S_work)
IsUnlockPath    == UnderPath(req.pathname, S_work_unlock)
IsApiSubPath    == UnderPath(req.pathname, S_work \o S_api)
IsApiPath       == UnderPath(req.pathname, S_api) \/ IsApiSubPath
HoldsToken      == Cookie("case_access", "1") \in req.cookies
ProxyAnswered   == req.handler = "proxy"
PassedThrough   == res.kind = "next"
Redirected      == res.kind = "redirect"

\* The redirect URL of the scenario of the return target.
U_scenario ==
    <<"?", "n", "e", "x", "t", "=", "%", "2", "F", "w", "o", "r", "k", "%", "2", "F", "c", "a", "l", "i", "b", "r", "a", "t", "i", "o", "n", "-", "s", "o", "f", "t", "w", "a", "r", "e", "%", "3", "F", "r", "e", "f", "%", "3", "D", "l", "i">>

\* C1: for every path under /work that is neither the unlock path nor an API
\* path, and for every state of the case_access cookie, proxy() passes the
\* request through if and only if the cookie value is exactly "1", and
\* redirects otherwise.
C1_PassIffToken ==
    (ProxyAnswered /\ UnderWork /\ ~IsUnlockPath /\ ~IsApiPath)
        => /\ PassedThrough <=> HoldsToken
           /\ ~PassedThrough => Redirected

C3_OutsideWorkPasses ==
    (ProxyAnswered /\ ~UnderWork) => PassedThrough

\* C4: whenever proxy() denies a request, the redirect goes to /work/unlock
\* and its next parameter, once decoded, is the requested pathname followed by
\* the original query string, character for character.
C4_NextIsReturnTarget ==
    (ProxyAnswered /\ Redirected)
        => /\ res.location.pathname = S_work_unlock
           /\ searchParamsGet(parseSearch(res.location.search), S_next)
                  = req.pathname \o req.search

C4_Witness ==
    /\ ProxyAnswered
    /\ Redirected
    /\ req.pathname = P.calibration
    /\ req.search = Q.next
    /\ searchParamsGet(parseSearch(res.location.search), S_next) = P.calibration \o Q.next

\* C5: the query string of the redirect URL is the single parameter next; the
\* request for /work/calibration-software?ref=li without the cookie is
\* redirected to /work/unlock?next=%2Fwork%2Fcalibration-software%3Fref%3Dli.
C5_OnlyNextInRedirect ==
    (ProxyAnswered /\ Redirected)
        => /\ res.location.search
                  = <<"?">> \o S_next \o <<"=">> \o formEncode(req.pathname \o req.search)
           /\ (req.pathname = P.calibration /\ req.search = Q.ref)
                  => res.location.search = U_scenario

UnlockAnswered  == req.handler = "POST"
JsonSubmitted   == req.body.syntax = "json"
FormSubmitted   == req.body.syntax = "form"
SecretSet       == CASE_PASS.t = "string" /\ CASE_PASS.v # ""
Submits(p)      == Prop("password", p) \in req.body.value.props
SameValue(a, b) == a.t = b.t /\ a.v = b.v
Status(n)       == res.status = n
NoCookieSet     == res.cookies = {}

\* The response sets exactly the session cookie case_access=1.
TokenIssued ==
    /\ Cardinality(res.cookies) = 1
    /\ \A c \in res.cookies :
        /\ c.name = "case_access" /\ c.value = "1"
        /\ c.path = <<"/">> /\ c.httpOnly /\ c.sameSite = "lax"
        /\ c.maxAge = "unset" /\ c.expires = "unset"

\* C6: when CASE_PASS is set to a non-empty value and the password of the
\* POST body equals it, the unlock endpoint answers 200 with body ok:true and
\* sets the cookie case_access=1 with path /, HttpOnly, SameSite=Lax and
\* neither expires nor max-age.
C6_MatchGrants ==
    (UnlockAnswered /\ JsonSubmitted /\ SecretSet /\ Submits(CASE_PASS))
        => Status(200) /\ res.body = "ok:true" /\ TokenIssued

C6_Witness ==
    /\ UnlockAnswered /\ JsonSubmitted
    /\ CASE_PASS = JsString("s3cret")
    /\ Submits(JsString("s3cret"))
    /\ Status(200)
    /\ res.cookies # {}

\* C7: for every submitted password that differs from the configured
\* CASE_PASS the unlock endpoint answers 401 and sets no cookie; a cookie is
\* set by no response other than the answer to an exactly matching password.
C7_MismatchDenies ==
    /\ \A p \in PasswordValues :
        (UnlockAnswered /\ JsonSubmitted /\ Submits(p) /\ ~SameValue(p, CASE_PASS))
            => Status(401) /\ NoCookieSet
    /\ ~NoCookieSet
        => UnlockAnswered /\ JsonSubmitted /\ Submits(CASE_PASS) /\ Status(200)

C7_Witness ==
    /\ UnlockAnswered /\ JsonSubmitted
    /\ CASE_PASS = JsString("123")
    /\ Submits(JsNumber("123"))
    /\ Status(401)
    /\ NoCookieSet

\* C8: when CASE_PASS is unset or the empty string, every unlock submission
\* gets 401 and no cookie.
C8_FailClosed ==
    (UnlockAnswered /\ ~SecretSet) => Status(401) /\ NoCookieSet

\* A body that carries no string password: not a JSON text, not a JSON object,
\* an object without the field, or the field with a value that is no string.
Malformed ==
    \/ ~JsonSubmitted
    \/ req.body.value.t # "object"
    \/ \A p \in req.body.value.props : p.key = "password" => p.val.t # "string"

\* C9: a malformed unlock request body is treated as a failed match: the
\* endpoint answers 401 without a cookie and never ends in an unhandled
\* exception.
C9_MalformedDenied ==
    (UnlockAnswered /\ Malformed)
        => Status(401) /\ NoCookieSet /\ res.kind # "error"

Token          == Cookie("case_access", "1")
TokenInJar     == Token \in jar
SameUrl(a, b)  == a.pathname = b.pathname /\ a.search = b.search

\* The URL the user asked for is a protected path: under /work, neither the
\* unlock path nor an API path.
WantedProtected ==
    /\ wanted # NoUrl
    /\ UnderPath(wanted.pathname, S_work)
    /\ ~UnderPath(wanted.pathname, S_work_unlock)
    /\ ~UnderPath(wanted.pathname, S_api)
    /\ ~UnderPath(wanted.pathname, S_work \o S_api)

\* C11: the unlock endpoint is idempotent on success: every submission of the
\* correct secret yields 200 and the cookie case_access=1, whatever was
\* submitted before and whether or not the client already holds the cookie,
\* and all the cookies issued in a session are the same (name, value and
\* attributes).
C11_Idempotent ==
    /\ (UnlockAnswered /\ JsonSubmitted /\ SecretSet /\ Submits(CASE_PASS))
           => Status(200) /\ TokenIssued /\ res.cookies \subseteq issued
    /\ Cardinality(issued) <= 1

\* The correct secret submitted by a client that already holds the cookie.
C11_Witness ==
    /\ UnlockAnswered /\ SecretSet /\ Submits(CASE_PASS)
    /\ HoldsToken
    /\ Status(200)
    /\ issued # {}

\* C12: the end-to-end flow of a browser without the cookie: the request for
\* a protected path P is redirected to the unlock page with next=P; the POST
\* of the correct secret returns 200 and the cookie; the unlock client then
\* navigates to exactly P; the re-request of P with the cookie is passed
\* through and the browser ends at P.
C12_EndToEnd ==
    /\ (WantedProtected /\ ProxyAnswered /\ SameUrl(req, wanted) /\ ~HoldsToken)
           => /\ Redirected
              /\ nav.pathname = S_work_unlock
              /\ searchParamsGet(parseSearch(nav.search), S_next)
                     = wanted.pathname \o wanted.search
    /\ (WantedProtected /\ nav = NoUrl /\ ui.mounted)
           => ui.next = wanted.pathname \o wanted.search
    /\ (WantedProtected /\ UnlockAnswered /\ Status(200) /\ nav # NoUrl)
           => TokenInJar /\ nav.origin = "self" /\ SameUrl(nav, wanted)
    /\ (WantedProtected /\ ProxyAnswered /\ TokenInJar)
           => PassedThrough /\ (nav = NoUrl => SameUrl(loc, wanted))

\* C13: the target the unlock page navigates to is always a same-origin
\* relative path: an absolute or protocol-relative next is treated as invalid
\* and the client navigates to the default protected path instead.
C13_SameOriginTarget ==
    /\ nav.origin # "external"
    /\ loc.origin # "external"
    /\ (UnlockAnswered /\ Status(200) /\ nav # NoUrl
            /\ (startsWith(ui.next, <<"/", "/">>) \/ startsWith(ui.next, H_https)))
           => nav = Url("self", P.calibration, <<>>)

\* The one response of a denial.
GenericDenial ==
    [kind |-> "json", status |-> 401, location |-> NoLocation, body |-> "ok:false",
     cookies |-> {}]

\* C14: the denial does not tell why: for every submitted password the
\* response when CASE_PASS is unset (or empty) and the response when
\* CASE_PASS is set and the password is wrong are the same response, in
\* status, body and headers.
C14_DenialIsGeneric ==
    \A p \in PasswordValues :
        (UnlockAnswered /\ JsonSubmitted /\ Submits(p)
                /\ (~SecretSet \/ ~SameValue(p, CASE_PASS)))
            => res = GenericDenial

C14_Witness ==
    /\ UnlockAnswered /\ JsonSubmitted
    /\ CASE_PASS = JsUndefined
    /\ Submits(JsString("s3cret"))
    /\ res = GenericDenial

\* C15: the browser holds case_access=1 only if an earlier unlock submission
\* carried a password equal to a non-empty CASE_PASS; no pass-through,
\* redirect or 401 response sets a cookie.
C15_TokenOnlyAfterMatch ==
    /\ TokenInJar => granted
    /\ (PassedThrough \/ Redirected \/ Status(401)) => NoCookieSet

C15_Witness ==
    /\ TokenInJar
    /\ granted
    /\ ProxyAnswered /\ PassedThrough

\* C16: once the browser holds case_access=1, no later interceptor decision
\* and no later unlock submission clears or changes the cookie, and every
\* later request that carries it is passed through.
C16_NeverRevoked ==
    /\ [][TokenInJar => TokenInJar']_vars
    /\ []((ProxyAnswered /\ HoldsToken) => PassedThrough)

\* A wrong password answered 401 while the browser holds the token.
C16_Witness ==
    /\ TokenInJar
    /\ UnlockAnswered /\ HoldsToken
    /\ Status(401)

\* C17: the interceptor has no side effects: a request through proxy() leaves
\* the browser's cookies and the environment as they are, and its response,
\* pass-through or redirect, sets no cookie.
C17_ProxyHasNoEffect ==
    /\ [][Request => /\ jar' = jar
                     /\ CASE_PASS' = CASE_PASS /\ NODE_ENV' = NODE_ENV
                     /\ issued' = issued /\ granted' = granted]_vars
    /\ [](ProxyAnswered => NoCookieSet)

C17_Witness ==
    /\ ProxyAnswered /\ Redirected
    /\ TokenInJar = HoldsToken
    /\ NoCookieSet
    /\ nav.pathname = S_work_unlock

\* C18: when the unlock endpoint answers the form's submission with a status
\* that is not OK, the form shows exactly "Access denied", leaves the loading
\* state and does not navigate.
C18_DenialShown ==
    [][(Answer /\ ~ok(res'))
           => /\ ui'.error = "Access denied"
              /\ ~ui'.loading
              /\ ui'.mounted
              /\ nav' = NoUrl
              /\ loc' = loc]_vars

C18_Witness ==
    /\ UnlockAnswered /\ Status(401)
    /\ inflight = NoBody
    /\ ui.mounted /\ ui.error = "Access denied" /\ ~ui.loading
    /\ nav = NoUrl
    /\ loc.pathname = S_work_unlock

(***************************************************************************)
(* Properties of the contact relay                                         *)
(***************************************************************************)
\* The last request went to the route handler of /api/contact.
RouteAnswered == creq.handler = "route.ts"

\* The last request went to send.php.
PhpAnswered == creq.handler = "send.php"

\* An outbound call to the provider, or to mail(), was made for the last request.
Forwarded == sent # <<>>

\* The fields of the last submission pass the validation the relay states.
PassesValidation ==
    /\ trim(orEmpty(creq.company)) = <<>>
    /\ trim(orEmpty(creq.name)) # <<>>
    /\ trim(orEmpty(creq.email)) # <<>>
    /\ trim(orEmpty(creq.message)) # <<>>
    /\ isEmail(trim(orEmpty(creq.email)))

\* C19: POST /api/contact makes an outbound provider call only if the
\* honeypot field company is empty, name, email and message are non-empty
\* after trimming and the email is syntactically valid; every rejected
\* submission gets an error status and no outbound call.
C19_ForwardOnlyValidated ==
    RouteAnswered =>
        /\ Forwarded => PassesValidation
        /\ ~PassesValidation => cres.status >= 400 /\ ~Forwarded
        /\ cres.status = 200 => Forwarded

C19_Witness ==
    /\ RouteAnswered
    /\ Forwarded
    /\ cres.status = 200
    /\ creq.name = Field(T.name)
    /\ sent[1].name = <<"A", "l">>
    /\ sent[1].reply_to = E.ok

\* C20: a submission whose message is longer than 2000 characters is
\* rejected with an error and no email is forwarded, whichever contact
\* handler receives it.
C20_LengthBound ==
    (RouteAnswered \/ PhpAnswered) /\ Len(trim(orEmpty(creq.message))) > 2000
        => cres.status >= 400 /\ ~Forwarded

\* The elapsed time the last submission reports, when it reports one in digits.
ReportsElapsed ==
    /\ creq.took_ms.present
    /\ creq.took_ms.text # <<>>
    /\ \A k \in 1..Len(creq.took_ms.text) : creq.took_ms.text[k] \in Digits

\* The last submission was made sooner after the form was loaded than a human's.
TooFast == ReportsElapsed /\ int(creq.took_ms.text) < 1200

\* C21: a submission made less than 1200 ms after the form was loaded is
\* rejected and no email is sent.
C21_TooFastRejected ==
    (RouteAnswered \/ PhpAnswered) /\ creq.method = "POST" /\ TooFast
        => cres.status >= 400 /\ ~Forwarded

\* The last request failed on the server's side.
ServerFailed == (RouteAnswered \/ PhpAnswered) /\ cres.status >= 500

\* The error messages that say no more than that the relay failed.
GenericErrors == {"Email send failed", "Unexpected server error", "Message could not be sent"}

\* C22: when the provider call fails, the server is misconfigured or an
\* exception is thrown, the response body carries a generic error message and
\* no provider response text, configuration detail or exception message.
C22_GenericFailure ==
    ServerFailed => cres.error \in GenericErrors /\ cres.detail = "none"

(***************************************************************************)
(* Properties of the gate, continued                                       *)
(***************************************************************************)
\* C23: the cookie a successful unlock issues carries the Secure attribute
\* exactly when NODE_ENV is production.
C23_SecureInProduction ==
    (UnlockAnswered /\ Status(200))
        => /\ res.cookies # {}
           /\ \A c \in res.cookies : c.secure <=> (NODE_ENV = "production")

C23_Witness ==
    /\ UnlockAnswered /\ Status(200)
    /\ NODE_ENV = "development"
    /\ \E c \in res.cookies : c.name = "case_access" /\ ~c.secure

(***************************************************************************)
(* Properties of send.php's rate limit                                     *)
(***************************************************************************)
\* Of n + 1 calls of mail() in a row, the last is more than w seconds after
\* the first: no w seconds hold more than n of them.
AtMost(n, w) ==
    \A i \in 1..(Len(mails) - n) : mails[i + n] - mails[i] > w

\* The answers of the rate limiter.
RateErrors ==
    {"Too many messages. Please wait a bit and try again.",
     "Hourly limit reached. Please try again later."}

\* The calls of mail() in the last w seconds, the last request's left out.
Before(w) ==
    Len(SelectSeq(mails, LAMBDA ts : now - ts <= w)) - Len(sent)

\* C24: of the requests of one client, handled one after another, at most 2
\* within any 60 seconds and at most 8 within any 3600 seconds get past the
\* rate limiter to mail(); a request beyond either limit is answered 429 and
\* sends no mail.
C24_RateLimit ==
    /\ AtMost(2, 60)
    /\ AtMost(8, 3600)
    /\ (PhpAnswered /\ cres.error \in RateErrors) => cres.status = 429 /\ ~Forwarded
    /\ (PhpAnswered /\ (Before(60) >= 2 \/ Before(3600) >= 8)) => ~Forwarded
    /\ (PhpAnswered /\ cres.status = 200) => Forwarded

C24_Witness ==
    /\ PhpAnswered
    /\ Len(mails) = 8
    /\ cres.status = 429
    /\ cres.error = "Hourly limit reached. Please try again later."
    /\ ~Forwarded

(***************************************************************************)
(* Properties of CaseStudyShell                                            *)
(***************************************************************************)
\* The system colour scheme changes in this step, after the shell has mounted.
SystemChanges == shell.phase = "mounted" /\ shell'.system # shell.system

\* C25: a change of the system colour scheme after the mount changes the
\* shell's theme if no theme was stored in localStorage when the shell
\* mounted, and is ignored if one was.
C25_SystemAdoptedIffUnstored ==
    [][SystemChanges =>
          IF shell.atMount = "null"
          THEN shell'.theme = shell'.system
          ELSE shell'.theme = shell.theme]_vars

(***************************************************************************)
(* Properties of the gate: the unlock exemption                            *)
(***************************************************************************)
\* The pathname shares the characters of /work/unlock without being the
\* unlock page or a path beneath it.
UnlockSibling == startsWith(req.pathname, S_work_unlock) /\ ~IsUnlockPath

\* C26: the unlock exemption covers /work/unlock and the paths beneath it
\* only: a request without the cookie for a path that merely shares the
\* string prefix, such as /work/unlock-notes or /work/unlocked/secret, is
\* redirected and not passed through.
C26_SiblingsGated ==
    (ProxyAnswered /\ UnlockSibling /\ ~HoldsToken) => Redirected /\ ~PassedThrough

(***************************************************************************)
(* Properties of the unlock form over a failing network                    *)
(***************************************************************************)
\* The unlock form is shown and its submit button is disabled.
Loading == ui.mounted /\ ui.loading

\* C27: every submission of the unlock form that does not end in navigation
\* eventually leaves the loading state: after a 401 response, and after a
\* fetch that rejects, loading returns to false.
C27_LoadingEnds ==
    Loading ~> (~Loading \/ nav # NoUrl)

(***************************************************************************)
(* Properties of send.php's rate limit under concurrent requests           *)
(***************************************************************************)
\* The runs that have written their timestamp to the rate file.
Written == Len(mails) + Cardinality({p \in Runs : procs[p].pc = "persisted"})

\* C28: for every interleaving of two requests' read of the timestamp file,
\* limit check and write-back, at most 2 sends occur per 60 seconds and no
\* recorded timestamp is lost by one request overwriting the other's write.
C28_RaceFree ==
    /\ AtMost(2, 60)
    /\ Len(recent(rateFile, now)) >= Written

(***************************************************************************)
(* Properties of the Header                                                *)
(***************************************************************************)
\* C29: while the click lock is held the highlighted section is the nav
\* section clicked last, for every interleaving of nav clicks, scroll events
\* and timers, a second click before the first click's timer fires included.
C29_LockedOnClicked ==
    header.clickLock => header.activeSection = header.clicked

(***************************************************************************)
(* Properties of send.php's timing trap                                    *)
(***************************************************************************)
\* This step is a run of send.php.
PhpRuns == creq'.handler = "send.php" /\ now' = now

\* The report is a positive integer: digits only, and not zero.
PositiveInteger(v) ==
    /\ v.present
    /\ v.text # <<>>
    /\ \A k \in 1..Len(v.text) : v.text[k] \in Digits
    /\ \E k \in 1..Len(v.text) : v.text[k] # "0"

\* This run handles its request as send.php handles the same request with
\* the report took.
HandledAsWith(took) ==
    \E mailOk \in BOOLEAN :
        LET out == send_php([creq' EXCEPT !.took_ms = took], rateFile, now, mailOk)
        IN  /\ cres' = out.res
            /\ sent' = out.sent
            /\ rateFile' = out.file

\* C30 as stated: a request whose took_ms is not a positive integer (missing,
\* non-numeric, zero or negative) skips both timing checks and is handled
\* as a request with an acceptable elapsed time.
C30_TrapOnlyForPositiveInteger ==
    [][(PhpRuns /\ ~PositiveInteger(creq'.took_ms)) => HandledAsWith(Field(K.human))]_vars

\* The reports whose (int) cast is not positive: missing, text without
\* leading digits, zero, negative.
Unreported == {Missing, Field(K.zero), Field(K.negative), Field(K.text)}

\* C30 as amended: the trap goes by the (int) cast of took_ms.  A request
\* whose took_ms is missing, zero, negative or a text that does not begin
\* with digits skips both timing checks and is handled as a request with an
\* acceptable elapsed time; a text that begins with digits, such as 900ms, is
\* not skipped: it is handled as its leading number.
C30_TrapByIntCast ==
    [][PhpRuns =>
          /\ creq'.took_ms \in Unreported => HandledAsWith(Field(K.human))
          /\ creq'.took_ms = Field(K.leading) => HandledAsWith(Field(<<"9", "0", "0">>))]_vars

C30_Witness ==
    /\ PhpAnswered
    /\ creq.took_ms = Field(K.text)
    /\ cres.status = 200
    /\ Forwarded

====
